---- MODULE Spec2Model ----
(***************************************************************************)
(* State-machine model of the presentation layer of the modeler client:    *)
(*   - MultiSheetTab   (client/src/app/tabs/MultiSheetTab.js)              *)
(*   - FormEditor      (the form editor wrapper)                           *)
(*   - EngineProfile   (the engine-profile selector overlay)               *)
(* Each component has its own specification (SpecTab, SpecForm and, for    *)
(* the selector on top of the form editor, SpecProfile); the variables of  *)
(* the other component keep their initial values.                          *)
(***************************************************************************)
EXTENDS Integers, Sequences, FiniteSets, TLC

VARIABLES
  \* ---- MultiSheetTab: props, cached state, environment ----
  providers,      \* props.providers (list of provider objects)
  sheets,         \* cached sheets
  activeSheet,    \* cached activeSheet
  lastXML,        \* cached lastXML
  pending,        \* switchSheet calls suspended at `await getXML()`
  editors,        \* provider types whose editor has been mounted
  gen,            \* allocation counter for object identities
  switches,       \* switchSheet calls made so far
  \* ---- FormEditor: props, component state, cached state, form engine ----
  mounted,        \* this._isMounted of the current instance
  importing,      \* state.importing
  propsXml,       \* props.xml of the form editor
  lastSchema,     \* cached lastSchema
  stackIdx,       \* cached stackIdx (the baseline)
  engineProfile,  \* cached engineProfile
  commandStack,   \* commandStack._stackIdx of the cached form
  formSchema,     \* source of the schema the cached form holds
  inflight,       \* form.importSchema calls not yet resolved
  \* ---- EngineProfileSelection: hook state of the overlay ----
  overlay,        \* [open, selected, error]
  \* ---- both ----
  last            \* the operation that ran last, with its inputs/outputs

tabVars == <<providers, sheets, activeSheet, lastXML, pending,
             editors, gen, switches>>

formVars == <<mounted, importing, propsXml, lastSchema, stackIdx, engineProfile,
              commandStack, formSchema, inflight, overlay>>

vars == <<tabVars, formVars, last>>

----------------------------------------------------------------------------
\* Bounds of the model

\* sheetsChanged reports per run (each allocates a new generation of objects)
MaxReports == 1
\* longest list a provider reports
MaxNewSheets == 2
\* switchSheet calls per run
MaxSwitches == 2
\* most warnings an import reports
MaxWarnings == 1
\* commands on the form's command stack
MaxStack == 1
\* form.importSchema calls in flight at the same time
MaxInflight == 2

----------------------------------------------------------------------------
\* Values

\* JavaScript `undefined` in a string-valued slot
Undefined == "undefined"

\* a missing `order` property is the empty sequence, a present one <<n>>
NoOrder == <<>>

TabDocs == {"x0", "x1"}

PDmn == [type |-> "dmn", defaultName |-> "DMN", isFallback |-> FALSE]
PXml == [type |-> "xml", defaultName |-> "XML", isFallback |-> TRUE]

\* provider lists a tab is created with
ProviderLists == {<<PDmn, PXml>>, <<PDmn>>}

\* sheets an editor may report (id, name, type, order as the editor sets them)
ReportedSheets ==
  { [id |-> "s1", name |-> "One", type |-> "t1", order |-> <<-1>>],
    [id |-> "s2", name |-> "Two", type |-> "t2", order |-> NoOrder] }

RECURSIVE SeqsUpTo(_, _)
SeqsUpTo(S, n) ==
  IF n = 0 THEN {<<>>}
  ELSE LET shorter == SeqsUpTo(S, n - 1)
       IN shorter \cup
          { Append(s, e) : s \in {t \in shorter : Len(t) = n - 1},
                            e \in S }

NoRepeat(s) == \A i, j \in 1..Len(s) : i # j => s[i] # s[j]

NewSheetLists == { s \in SeqsUpTo(ReportedSheets, MaxNewSheets) : NoRepeat(s) }

----------------------------------------------------------------------------
\* MultiSheetTab helpers

\* getDefaultSheets: one sheet per provider, no order property
getDefaultSheets(provs) ==
  [ i \in 1..Len(provs) |->
      [ ref       |-> <<0, i>>,
        id        |-> provs[i].type,
        name      |-> provs[i].defaultName,
        isDefault |-> TRUE,
        provider  |-> provs[i],
        type      |-> provs[i].type,
        order     |-> NoOrder ] ]

\* `t.order || 0`
OrderOrZero(o) == IF o = NoOrder \/ o[1] = 0 THEN <<0>> ELSE o

\* { ...newSheet, provider }
Wire(newSheet, provider) ==
  [ ref       |-> <<0, 0>>,
    id        |-> newSheet.id,
    name      |-> newSheet.name,
    isDefault |-> FALSE,
    provider  |-> provider,
    type      |-> newSheet.type,
    order     |-> newSheet.order ]

\* .map(t => ({ ...t, order: t.order || 0 })): a new object for every element
Normalise(list, g) ==
  [ i \in 1..Len(list) |->
      [ list[i] EXCEPT !.ref = <<g, i>>, !.order = OrderOrZero(list[i].order) ] ]

\* Array.prototype.sort with (a, b) => a.order - b.order: stable, ascending
RECURSIVE Insert(_, _)
Insert(sorted, e) ==
  IF sorted = <<>> THEN <<e>>
  ELSE IF e.order[1] < Head(sorted).order[1]
       THEN <<e>> \o sorted
       ELSE <<Head(sorted)>> \o Insert(Tail(sorted), e)

RECURSIVE SortByOrder(_)
SortByOrder(list) ==
  IF list = <<>> THEN <<>>
  ELSE LET n == Len(list)
       IN Insert(SortByOrder(SubSeq(list, 1, n - 1)), list[n])

\* sheetsChanged, lines 60-73: the sheets of `provider` are replaced by the
\* reported ones, every element is copied with its order defaulted, then sorted
MergeSheets(cached, provider, newSheets, g) ==
  LET wiredNewSheets == [ i \in 1..Len(newSheets) |-> Wire(newSheets[i], provider) ]
      kept == SelectSeq(cached, LAMBDA sheet : sheet.provider # provider)
  IN SortByOrder(Normalise(kept \o wiredNewSheets, g))

\* sheets.find(s => s.id === id); only used where a match exists
FindById(list, id) ==
  list[CHOOSE i \in 1..Len(list) :
         /\ list[i].id = id
         /\ \A j \in 1..(i - 1) : list[j].id # id]

\* the provider sheetsChanged attributes a report to
ReportProvider(active, reporter) == active.provider

\* activeSheet after sheetsChanged: re-resolved by id when one is supplied
ResolveActive(active, merged, newSheets, k) ==
  IF k > 0 THEN FindById(merged, newSheets[k].id) ELSE active

\* openFallback: the first sheet whose provider is the fallback, if any
HasFallback(list) == \E i \in 1..Len(list) : list[i].provider.isFallback

FallbackSheet(list) ==
  list[CHOOSE i \in 1..Len(list) :
         /\ list[i].provider.isFallback
         /\ \A j \in 1..(i - 1) : ~list[j].provider.isFallback]

openFallback(active, list) ==
  IF HasFallback(list) THEN FallbackSheet(list) ELSE active

\* SheetSwitch: sheets.find(sheet => sheet !== activeSheet)
SheetSwitchTarget(list, active) ==
  list[CHOOSE i \in 1..Len(list) :
         /\ list[i] # active
         /\ \A j \in 1..(i - 1) : list[j] = active]

\* SheetSwitch renders its button with two or more sheets; without a fallback
\* provider rendering it throws (fallbackProvider.defaultName)
SheetSwitchRendered(list) == Len(list) >= 2 /\ HasFallback(list)

\* a switchSheet that fetches the XML for every sheet but the active one
switchSheetBranchAlwaysFetch(active, sheet) ==
  IF sheet = active THEN "return" ELSE "await"

\* switchSheet up to its await: which branch the call takes
switchSheetBranch(active, sheet) ==
  IF sheet = active THEN "return"
  ELSE IF sheet.provider = active.provider THEN "set"
  ELSE "await"

\* a switchSheet that swaps the sheet and keeps the lastXML it had
switchSheetCommitKeepsXML(call, cachedXML) ==
  [activeSheet |-> call.sheet, lastXML |-> cachedXML]

\* switchSheet after its await: setCached({ activeSheet: sheet, lastXML: xml })
switchSheetCommit(call, cachedXML) ==
  [activeSheet |-> call.sheet, lastXML |-> call.xml]

\* switchSheet run as a whole on the cached state (no suspension at getXML)
switchSheetWhole(active, cachedXML, sheet, doc) ==
  IF sheet = active THEN [activeSheet |-> active, lastXML |-> cachedXML]
  ELSE IF sheet.provider = active.provider
         THEN [activeSheet |-> sheet, lastXML |-> cachedXML]
         ELSE [activeSheet |-> sheet, lastXML |-> doc]

\* the suspended calls once an operation other than switchSheet has written
\* the cache
Disturbed(calls) == [ i \in 1..Len(calls) |-> [calls[i] EXCEPT !.alone = FALSE] ]

----------------------------------------------------------------------------
\* MultiSheetTab: initial state (constructor) and operations

InitTab ==
  /\ providers \in ProviderLists
  /\ sheets = getDefaultSheets(providers)
  /\ activeSheet = sheets[1]
  /\ lastXML = Undefined
  /\ pending = <<>>
  /\ editors = {sheets[1].provider.type}
  /\ gen = 0
  /\ switches = 0

\* an editor (the mounted one, or one mounted earlier) reports its sheets
SheetsChanged(reporter, newSheets, k) ==
  /\ gen < MaxReports
  /\ reporter \in editors
  /\ LET provider == ReportProvider(activeSheet, reporter)
         merged == MergeSheets(sheets, provider, newSheets, gen + 1)
         active == ResolveActive(activeSheet, merged, newSheets, k)
     IN /\ sheets' = merged
        /\ activeSheet' = active
        /\ editors' = editors \cup {active.provider.type}
        /\ pending' = Disturbed(pending)
  /\ gen' = gen + 1
  /\ last' = [op |-> "sheetsChanged"]
  /\ UNCHANGED <<providers, lastXML, switches>>

\* the sheet switch button is clicked: switchSheet up to its await; `doc` is
\* what the mounted editor's getXML() returns
SheetSwitchClick(doc) ==
  /\ switches < MaxSwitches
  /\ SheetSwitchRendered(sheets)
  /\ switches' = switches + 1
  /\ LET sheet == SheetSwitchTarget(sheets, activeSheet)
         branch == switchSheetBranch(activeSheet, sheet)
     IN /\ activeSheet' = IF branch = "set" THEN sheet ELSE activeSheet
        /\ pending' = IF branch = "await"
                        THEN Append(pending, [sheet |-> sheet, xml |-> doc,
                                              alone |-> TRUE])
                        ELSE pending
        /\ last' = [op |-> "switchSheet", branch |-> branch,
                    getXML |-> (branch = "await")]
  /\ UNCHANGED <<providers, sheets, lastXML, editors, gen>>

\* getXML resolved: switchSheet continues after its await
SwitchSheetResume ==
  /\ pending # <<>>
  /\ LET call == Head(pending)
         cached == switchSheetCommit(call, lastXML)
     IN /\ activeSheet' = cached.activeSheet
        /\ lastXML' = cached.lastXML
        /\ editors' = editors \cup {cached.activeSheet.provider.type}
        /\ last' = [op |-> "switchSheetResume", call |-> call]
  /\ pending' = Tail(pending)
  /\ UNCHANGED <<providers, sheets, gen, switches>>

\* a handleImport that shows the warnings notification also with an error
handleImportHostAlwaysNotifies(error, warnings) ==
  [ onWarning    |-> warnings,
    notification |-> IF warnings > 0 THEN <<warnings>> ELSE <<>>,
    dialog       |-> error,
    onError      |-> IF error THEN 1 ELSE 0 ]

\* handleImport: what the host receives (onWarning calls, the notification
\* with its warning count, onError calls, the error dialog)
handleImportHost(error, warnings) ==
  [ onWarning    |-> warnings,
    notification |-> IF warnings > 0 /\ ~error THEN <<warnings>> ELSE <<>>,
    dialog       |-> error,
    onError      |-> IF error THEN 1 ELSE 0 ]

\* the editor finished an import: handleImport(error, warnings)
HandleImport(error, warnings) ==
  /\ LET active == IF error THEN openFallback(activeSheet, sheets) ELSE activeSheet
     IN /\ activeSheet' = active
        /\ editors' = editors \cup {active.provider.type}
        /\ pending' = IF active = activeSheet THEN pending ELSE Disturbed(pending)
  /\ last' = [op |-> "handleImport", error |-> error, warnings |-> warnings,
              host |-> handleImportHost(error, warnings),
              fallback |-> HasFallback(sheets)]
  /\ UNCHANGED <<providers, sheets, lastXML, gen, switches>>

NextTabOps ==
  \/ \E reporter \in {"dmn", "xml"}, newSheets \in NewSheetLists :
       \E k \in 0..Len(newSheets) : SheetsChanged(reporter, newSheets, k)
  \/ \E doc \in TabDocs : SheetSwitchClick(doc)
  \/ SwitchSheetResume
  \/ \E error \in BOOLEAN, warnings \in 0..MaxWarnings : HandleImport(error, warnings)

----------------------------------------------------------------------------
\* FormEditor: values

\* documents: the source they were written from, the number of edits they
\* hold and how they are formatted (as supplied, or by JSON.stringify(.., 2))
RawDoc(src) == [src |-> src, rev |-> 0, fmt |-> "raw"]
NullDoc == [src |-> "null", rev |-> 0, fmt |-> "null"]
UndefinedDoc == [src |-> "undefined", rev |-> 0, fmt |-> "undefined"]

\* f1: a form; f2: a form with an execution platform, imported with a warning;
\* bad: not JSON; rej: JSON the form engine rejects, with a warning
FormDocs == {RawDoc("f1"), RawDoc("f2"), RawDoc("bad"), RawDoc("rej")}

NullProfile == [executionPlatform |-> "null", executionPlatformVersion |-> "null"]

\* the options of the selector, BpmnModeler.js lines 237-241
ProfileOptions ==
  { [executionPlatform |-> "Camunda Platform", executionPlatformVersion |-> "7.15"],
    [executionPlatform |-> "Camunda Cloud", executionPlatformVersion |-> "1.0"],
    [executionPlatform |-> "Camunda Cloud", executionPlatformVersion |-> "1.1"] }

NoError == "null"

\* JSON.parse(schema): throws on a document that is not JSON
JsonParse(doc) ==
  [ok |-> doc.src # "bad", schema |-> [src |-> doc.src, rev |-> doc.rev]]

\* JSON.stringify(schema, null, 2)
JsonStringify(schema) == [src |-> schema.src, rev |-> schema.rev, fmt |-> "pretty"]

\* form.importSchema(schemaJSON): the engine's answer
EngineImport(schemaJSON) ==
  [ error    |-> IF schemaJSON.src = "rej" THEN "ImportError" ELSE NoError,
    warnings |-> IF schemaJSON.src \in {"rej", "f2"} THEN <<"w1">> ELSE <<>> ]

\* form.getSchema(): executionPlatform / executionPlatformVersion of the schema
SchemaProfile(src) ==
  IF src = "f2"
    THEN [executionPlatform |-> "Camunda Cloud", executionPlatformVersion |-> "1.1"]
    ELSE NullProfile

\* form.saveSchema(): the imported schema with the commands applied to it
saveSchema(src, idx) == [src |-> src, rev |-> idx + 1]

----------------------------------------------------------------------------
\* FormEditor: methods, as functions of the component's state `st`
\* st = [importing, lastSchema, stackIdx, engineProfile, inflight,
\*       started (an import was started), calls (the onImport calls made)]

FormState ==
  [ importing     |-> importing,
    lastSchema    |-> lastSchema,
    stackIdx      |-> stackIdx,
    engineProfile |-> engineProfile,
    inflight      |-> inflight,
    started       |-> FALSE,
    calls         |-> <<>> ]

\* an isImportNeeded that does not compare with the previous props
isImportNeededIgnoresPrev(isImporting, schema, prevSchema, cachedSchema) ==
  IF isImporting THEN FALSE ELSE schema # cachedSchema

\* isImportNeeded(prevProps)
isImportNeeded(isImporting, schema, prevSchema, cachedSchema) ==
  IF isImporting THEN FALSE
  ELSE IF schema = prevSchema THEN FALSE
  ELSE schema # cachedSchema

\* what handleImport passes to props.onImport
onImportArguments(error, warnings) == [error |-> error, warnings |-> <<>>]

\* a handleImport that keeps the baseline it had cached before
importBaselineKept(idx, cachedIdx) == cachedIdx

\* the baseline handleImport caches on success
importBaseline(idx, cachedIdx) == idx

\* the document handleImport caches on success: props.xml as it is then
importedSchema(schemaProp, imported) == schemaProp

\* handleImport(error, warnings)
handleImport(st, error, warnings, schemaProp, imported, idx, src) ==
  IF error # NoError
    THEN [st EXCEPT !.engineProfile = NullProfile,
                    !.lastSchema = NullDoc,
                    !.importing = FALSE,
                    !.calls = Append(@, onImportArguments(error, warnings))]
    ELSE [st EXCEPT !.engineProfile = SchemaProfile(src),
                    !.lastSchema = importedSchema(schemaProp, imported),
                    !.stackIdx = importBaseline(idx, @),
                    !.importing = FALSE,
                    !.calls = Append(@, onImportArguments(error, warnings))]

\* importSchema up to its await; a document that is not JSON fails at once
\* and handleImport runs in the same call
importSchema(st, schemaProp, idx, src) ==
  LET parsed == JsonParse(schemaProp)
  IN IF parsed.ok
       THEN [st EXCEPT !.importing = TRUE,
                       !.started = TRUE,
                       !.inflight = Append(@, [schema |-> parsed.schema,
                                               doc |-> schemaProp,
                                               live |-> TRUE])]
       ELSE handleImport([st EXCEPT !.started = TRUE], "SyntaxError", <<>>,
                         schemaProp, schemaProp, idx, src)

\* an importSchema that handles the result whether mounted or not
importSchemaResumeUnguarded(isMounted, handled, untouched) == handled

\* importSchema after its await: if (this._isMounted) handleImport(...)
importSchemaResume(isMounted, handled, untouched) ==
  IF isMounted THEN handled ELSE untouched

\* checkImport(prevProps)
checkImport(st, schemaProp, prevSchema, idx, src) ==
  IF isImportNeeded(st.importing, schemaProp, prevSchema, st.lastSchema)
    THEN importSchema(st, schemaProp, idx, src)
    ELSE st

\* a componentDidUpdate that calls checkImport without the previous props
componentDidUpdateNoPrev(st, schemaProp, idx, src) ==
  checkImport(st, schemaProp, UndefinedDoc, idx, src)

\* componentDidUpdate after a re-render with the same props
componentDidUpdate(st, schemaProp, idx, src) ==
  checkImport(st, schemaProp, schemaProp, idx, src)

\* a lifecycle call with the re-render that handleImport causes when it ran
\* inside the call
Lifecycle(st, schemaProp, prevSchema, idx, src) ==
  LET checked == checkImport(st, schemaProp, prevSchema, idx, src)
  IN IF checked.calls # <<>>
       THEN componentDidUpdate(checked, schemaProp, idx, src)
       ELSE checked

\* isDirty()
isDirty(idx, cachedIdx) == idx # cachedIdx

\* a getXML that does not move the baseline when it serializes
getXMLKeepsBaseline(cachedSchema, cachedIdx, schemaProp, idx, src) ==
  IF ~isDirty(idx, cachedIdx)
    THEN [ result     |-> IF cachedSchema # NullDoc THEN cachedSchema ELSE schemaProp,
           lastSchema |-> cachedSchema,
           stackIdx   |-> cachedIdx,
           serialized |-> FALSE ]
    ELSE [ result     |-> JsonStringify(saveSchema(src, idx)),
           lastSchema |-> JsonStringify(saveSchema(src, idx)),
           stackIdx   |-> cachedIdx,
           serialized |-> TRUE ]

\* getXML(): [result, lastSchema, stackIdx]
getXML(cachedSchema, cachedIdx, schemaProp, idx, src) ==
  IF ~isDirty(idx, cachedIdx)
    THEN [ result     |-> IF cachedSchema # NullDoc THEN cachedSchema ELSE schemaProp,
           lastSchema |-> cachedSchema,
           stackIdx   |-> cachedIdx,
           serialized |-> FALSE ]
    ELSE [ result     |-> JsonStringify(saveSchema(src, idx)),
           lastSchema |-> JsonStringify(saveSchema(src, idx)),
           stackIdx   |-> idx,
           serialized |-> TRUE ]

\* engineProfilesEqual(a, b)
engineProfilesEqual(a, b) ==
  /\ a # NullProfile
  /\ b # NullProfile
  /\ a.executionPlatform = b.executionPlatform
  /\ a.executionPlatformVersion = b.executionPlatformVersion

\* an Apply that does not check for a missing selection
applyBranchNoNullCheck(selected, profile) ==
  IF engineProfilesEqual(selected, profile) THEN "return" ELSE "set"

\* EngineProfileSelection.setEngineProfile (the Apply button): what it does
applyBranch(selected, profile) ==
  IF selected = NullProfile THEN "error"
  ELSE IF engineProfilesEqual(selected, profile) THEN "return"
  ELSE "set"

\* an Apply that passes the profile it was given as a prop
appliedProfileFromProps(selected, profile) == profile

\* what Apply passes to props.setEngineProfile: the staged selection
appliedProfile(selected, profile) == selected

\* onSelectEngineProfile: the staged selection and the error flag
onSelectEngineProfile(ov, option) ==
  IF engineProfilesEqual(ov.selected, option)
    THEN [ov EXCEPT !.selected = NullProfile]
    ELSE [ov EXCEPT !.selected = option, !.error = FALSE]

OverlayClosed == [open |-> FALSE, selected |-> NullProfile, error |-> FALSE]

----------------------------------------------------------------------------
\* FormEditor: initial state (constructor, createCachedState) and operations

InitForm ==
  /\ mounted = FALSE
  /\ importing = FALSE
  /\ propsXml \in FormDocs
  /\ lastSchema = NullDoc
  /\ stackIdx = -1
  /\ engineProfile = NullProfile
  /\ commandStack = -1
  /\ formSchema = "none"
  /\ inflight = <<>>
  /\ overlay = OverlayClosed

\* the component state and the cache become those of `st`
Commit(st) ==
  /\ Len(st.inflight) <= MaxInflight
  /\ importing' = st.importing
  /\ lastSchema' = st.lastSchema
  /\ stackIdx' = st.stackIdx
  /\ engineProfile' = st.engineProfile
  /\ inflight' = st.inflight

\* what a lifecycle call did, for `last`
Report(op, st, schemaProp, prevSchema, wasImporting, cachedSchema) ==
  [ op      |-> op,
    changed |-> schemaProp # prevSchema,
    idle    |-> ~wasImporting,
    differs |-> schemaProp # cachedSchema,
    started |-> st.started,
    calls   |-> st.calls ]

\* componentDidMount of a new instance (state.importing is false)
Mount ==
  /\ ~mounted
  /\ mounted' = TRUE
  /\ LET st == Lifecycle([FormState EXCEPT !.importing = FALSE], propsXml,
                         UndefinedDoc, commandStack, formSchema)
     IN /\ Commit(st)
        /\ last' = Report("mount", st, propsXml, UndefinedDoc, FALSE, lastSchema)
  /\ UNCHANGED <<propsXml, commandStack, formSchema, overlay>>

\* componentWillUnmount: imports in flight belong to an unmounted instance
Unmount ==
  /\ mounted
  /\ mounted' = FALSE
  /\ importing' = FALSE
  /\ inflight' = [ i \in 1..Len(inflight) |-> [inflight[i] EXCEPT !.live = FALSE] ]
  /\ overlay' = OverlayClosed
  /\ last' = [op |-> "unmount"]
  /\ UNCHANGED <<propsXml, lastSchema, stackIdx, engineProfile, commandStack,
                 formSchema>>

\* the host supplies another document: componentDidUpdate(prevProps)
HostSetsXml(doc) ==
  /\ mounted
  /\ doc # propsXml
  /\ propsXml' = doc
  /\ LET st == Lifecycle(FormState, doc, propsXml, commandStack, formSchema)
     IN /\ Commit(st)
        /\ last' = Report("update", st, doc, propsXml, importing, lastSchema)
  /\ UNCHANGED <<mounted, commandStack, formSchema, overlay>>

\* a re-render with the same props (state or cache changed elsewhere)
Rerender ==
  /\ mounted
  /\ LET st == Lifecycle(FormState, propsXml, propsXml, commandStack, formSchema)
     IN /\ Commit(st)
        /\ last' = Report("update", st, propsXml, propsXml, importing, lastSchema)
  /\ UNCHANGED <<mounted, propsXml, commandStack, formSchema, overlay>>

\* form.importSchema resolves. The engine has cleared the command stack and
\* holds the imported schema (none after an error). importSchema continues
\* after its await: handleImport if the instance is still mounted, followed by
\* the re-render its setState causes.
ImportResolve ==
  /\ inflight # <<>>
  /\ LET call == Head(inflight)
         answer == EngineImport(call.schema)
         src == IF answer.error # NoError THEN "none" ELSE call.schema.src
         rest == [FormState EXCEPT !.inflight = Tail(inflight)]
         handled == handleImport(rest, answer.error, answer.warnings, propsXml,
                                 call.doc, -1, src)
         st == importSchemaResume(call.live,
                                  componentDidUpdate(handled, propsXml, -1, src),
                                  rest)
     IN /\ commandStack' = -1
        /\ formSchema' = src
        /\ Commit(st)
        /\ last' = [ op |-> "importResolve", live |-> call.live,
                     error |-> answer.error, warnings |-> answer.warnings,
                     doc |-> call.doc, started |-> st.started,
                     calls |-> st.calls ]
  /\ UNCHANGED <<mounted, propsXml, overlay>>

\* a command is executed on the form (commandStack.changed -> handleChanged)
Execute ==
  /\ mounted
  /\ commandStack < MaxStack - 1
  /\ commandStack' = commandStack + 1
  /\ last' = [op |-> "commandStack.changed",
              dirty |-> isDirty(commandStack + 1, stackIdx)]
  /\ UNCHANGED <<mounted, importing, propsXml, lastSchema, stackIdx,
                 engineProfile, formSchema, inflight, overlay>>

\* a command is undone (commandStack.changed -> handleChanged)
Undo ==
  /\ mounted
  /\ commandStack > -1
  /\ commandStack' = commandStack - 1
  /\ last' = [op |-> "commandStack.changed",
              dirty |-> isDirty(commandStack - 1, stackIdx)]
  /\ UNCHANGED <<mounted, importing, propsXml, lastSchema, stackIdx,
                 engineProfile, formSchema, inflight, overlay>>

\* the events FormEditor listens to that leave the command stack alone
FormEvents == {"selection.changed", "propertiesPanel.focusin",
               "propertiesPanel.focusout", "import.done"}

\* an event that leaves the command stack alone -> handleChanged
FormEvent(event) ==
  /\ mounted
  /\ event \in FormEvents
  /\ last' = [op |-> "handleChanged", dirty |-> isDirty(commandStack, stackIdx)]
  /\ UNCHANGED formVars

\* the host asks for the document: getXML()
GetXML ==
  /\ mounted
  /\ LET got == getXML(lastSchema, stackIdx, propsXml, commandStack, formSchema)
     IN /\ lastSchema' = got.lastSchema
        /\ stackIdx' = got.stackIdx
        /\ last' = [op |-> "getXML", result |-> got.result,
                    serialized |-> got.serialized]
  /\ UNCHANGED <<mounted, importing, propsXml, engineProfile, commandStack,
                 formSchema, inflight, overlay>>

\* the engine profile button: opens the overlay (the selection starts as the
\* cached profile, no error) or closes it
ToggleOverlay ==
  /\ mounted
  /\ overlay' = IF overlay.open THEN OverlayClosed
                ELSE [open |-> TRUE, selected |-> engineProfile, error |-> FALSE]
  /\ last' = [op |-> "toggleOverlay"]
  /\ UNCHANGED <<mounted, importing, propsXml, lastSchema, stackIdx,
                 engineProfile, commandStack, formSchema, inflight>>

\* a radio option is clicked: onSelectEngineProfile
SelectProfile(option) ==
  /\ overlay.open
  /\ overlay' = onSelectEngineProfile(overlay, option)
  /\ last' = [op |-> "select"]
  /\ UNCHANGED <<mounted, importing, propsXml, lastSchema, stackIdx,
                 engineProfile, commandStack, formSchema, inflight>>

\* Apply is clicked: EngineProfileSelection.setEngineProfile, which calls
\* FormEditor.setEngineProfile (a command on the stack, the cached profile)
\* and closes the overlay
ApplyProfile ==
  /\ overlay.open
  /\ LET branch == applyBranch(overlay.selected, engineProfile)
     IN /\ branch = "set" => commandStack < MaxStack - 1
        /\ overlay' = IF branch = "error" THEN [overlay EXCEPT !.error = TRUE]
                      ELSE IF branch = "set" THEN OverlayClosed
                      ELSE overlay
        /\ engineProfile' = IF branch = "set"
                              THEN appliedProfile(overlay.selected, engineProfile)
                              ELSE engineProfile
        /\ commandStack' = IF branch = "set" THEN commandStack + 1
                           ELSE commandStack
        /\ last' = [op |-> "apply", branch |-> branch,
                    setEngineProfile |->
                      IF branch = "set"
                        THEN <<appliedProfile(overlay.selected, engineProfile)>>
                        ELSE <<>>,
                    closed |-> (branch = "set")]
  /\ UNCHANGED <<mounted, importing, propsXml, lastSchema, stackIdx,
                 formSchema, inflight>>

NextFormOps ==
  \/ Mount
  \/ Unmount
  \/ \E doc \in FormDocs : HostSetsXml(doc)
  \/ Rerender
  \/ ImportResolve
  \/ Execute
  \/ Undo
  \/ \E event \in FormEvents : FormEvent(event)
  \/ GetXML

NextProfileOps ==
  \/ Mount
  \/ Unmount
  \/ ImportResolve
  \/ Execute
  \/ Undo
  \/ ToggleOverlay
  \/ \E option \in ProfileOptions : SelectProfile(option)
  \/ ApplyProfile

----------------------------------------------------------------------------
\* Specifications

\* a tab with the two default sheets, for the runs of the form editor
TabIdle ==
  /\ providers = <<PDmn, PXml>>
  /\ sheets = getDefaultSheets(providers)
  /\ activeSheet = sheets[1]
  /\ lastXML = Undefined
  /\ pending = <<>>
  /\ editors = {"dmn"}
  /\ gen = 0
  /\ switches = 0

\* a form editor that is never mounted, for the runs of the tab
FormIdle ==
  /\ InitForm
  /\ propsXml = RawDoc("f1")

NextTab == NextTabOps /\ UNCHANGED formVars

NextForm == NextFormOps /\ UNCHANGED tabVars

NextProfile == NextProfileOps /\ UNCHANGED tabVars

\* the state after the tab's construction, the form editor never mounted
InitTabOnly == InitTab /\ FormIdle /\ last = [op |-> "constructor"]

\* the state after the form editor's construction, the tab left as constructed
InitFormOnly == InitForm /\ TabIdle /\ last = [op |-> "constructor"]

\* the multi-sheet tab with its editors as environment
SpecTab == InitTabOnly /\ [][NextTab]_vars

\* the form editor with its host and form engine
SpecForm == InitFormOnly /\ [][NextForm]_vars

\* the engine-profile selector over the form editor
SpecProfile == InitFormOnly /\ [][NextProfile]_vars

----------------------------------------------------------------------------
\* Properties of MultiSheetTab

ProviderOfType(t) == CHOOSE p \in {PDmn, PXml} : p.type = t

\* the fields of a sheet without its object identity, a missing order read as 0
Fields(sheet) == [sheet EXCEPT !.ref = <<0, 0>>, !.order = OrderOrZero(sheet.order)]

\* C1: switchSheet with a sheet that is not the active one but has the active
\* sheet's provider never calls getXML, leaves lastXML (and the suspended
\* calls and the sheet list) unchanged and only sets activeSheet to the sheet.
C1_SameProviderNoFetch ==
  [][ (last'.op = "switchSheet"
        /\ SheetSwitchTarget(sheets, activeSheet) # activeSheet
        /\ SheetSwitchTarget(sheets, activeSheet).provider = activeSheet.provider)
      => /\ ~last'.getXML
         /\ pending' = pending
         /\ lastXML' = lastXML
         /\ sheets' = sheets
         /\ activeSheet' = SheetSwitchTarget(sheets, activeSheet) ]_vars

\* a same-provider switch has just run: the active sheet is the target
C1_Witness ==
  /\ last.op = "switchSheet"
  /\ last.branch = "set"
  /\ \E i \in 1..Len(sheets) : sheets[i] = activeSheet
  /\ \E i \in 1..Len(sheets) :
       sheets[i] # activeSheet /\ sheets[i].provider = activeSheet.provider

\* C2: switchSheet with a sheet of another provider calls getXML and keeps
\* activeSheet and lastXML until the result is there; the step that makes the
\* sheet active stores that result as lastXML, so the active sheet never
\* changes provider through switchSheet with lastXML left at its old value.
C2_FetchBeforeSwap ==
  [][ /\ (last'.op = "switchSheet"
           /\ SheetSwitchTarget(sheets, activeSheet).provider # activeSheet.provider)
         => /\ last'.getXML
            /\ activeSheet' = activeSheet
            /\ lastXML' = lastXML
            /\ \E doc \in TabDocs :
                 pending' = Append(pending,
                                   [sheet |-> SheetSwitchTarget(sheets, activeSheet),
                                    xml |-> doc, alone |-> TRUE])
      /\ (last'.op = "switchSheetResume")
         => /\ pending # <<>>
            /\ activeSheet' = Head(pending).sheet
            /\ lastXML' = Head(pending).xml
      /\ (last'.op \in {"switchSheet", "switchSheetResume"}
           /\ activeSheet'.provider # activeSheet.provider)
         => /\ last'.op = "switchSheetResume"
            /\ lastXML' = Head(pending).xml ]_vars

\* a switch to another provider has completed and replaced lastXML
C2_Witness ==
  /\ last.op = "switchSheetResume"
  /\ activeSheet = last.call.sheet
  /\ lastXML = last.call.xml
  /\ lastXML = "x1"
  /\ activeSheet.provider = PXml

\* C3: when the editor of provider P reports its sheets, every cached sheet of
\* another provider is still in the list with the same id, name, type,
\* provider and order (a missing order read as 0), whatever sheet is active.
C3_OtherProvidersKept ==
  [][ \A reporter \in {"dmn", "xml"} :
        (\E newSheets \in NewSheetLists : \E k \in 0..Len(newSheets) :
            SheetsChanged(reporter, newSheets, k))
        => \A i \in 1..Len(sheets) :
             sheets[i].provider.type # reporter
             => \E j \in 1..Len(sheets') : Fields(sheets'[j]) = Fields(sheets[i]) ]_vars

\* C6: the cached activeSheet is one element of the cached sheet list
\* (compared by id and provider, so a copy of the sheet counts).
C6_ActiveInSheets ==
  Cardinality({ i \in 1..Len(sheets) :
                  /\ sheets[i].id = activeSheet.id
                  /\ sheets[i].provider = activeSheet.provider }) = 1

\* the reference result of a report: the sheets of the other providers and the
\* reported ones attributed to the reporter, without object identities
ReferenceSheets(cached, reporter, newSheets) ==
  LET others == SelectSeq(cached, LAMBDA sheet : sheet.provider.type # reporter)
      reported == [ i \in 1..Len(newSheets) |->
                      Wire(newSheets[i], ProviderOfType(reporter)) ]
      all == others \o reported
  IN [ i \in 1..Len(all) |-> Fields(all[i]) ]

Count(list, e) == Cardinality({ i \in 1..Len(list) : list[i] = e })

SameElements(a, b) ==
  /\ Len(a) = Len(b)
  /\ \A i \in 1..Len(a) : Count(a, a[i]) = Count(b, a[i])

Ascending(list) ==
  \A i \in 1..(Len(list) - 1) : list[i].order[1] <= list[i + 1].order[1]

\* C7: the list cached by sheetsChanged(newSheets) is the reference result:
\* the prior sheets of the other providers and exactly the reported sheets
\* attributed to the reporting provider, in ascending order.
C7_MergeIsReference ==
  [][ \A reporter \in {"dmn", "xml"}, newSheets \in NewSheetLists :
        (\E k \in 0..Len(newSheets) : SheetsChanged(reporter, newSheets, k))
        => /\ Ascending(sheets')
           /\ SameElements([ i \in 1..Len(sheets') |-> Fields(sheets'[i]) ],
                           ReferenceSheets(sheets, reporter, newSheets)) ]_vars

\* C8: a switchSheet call that completes has the effect of the whole call run
\* on the cache as it is then: calls suspended at the same time do not
\* interleave, the result is that of running them one after the other.
C8_SwitchesSerial ==
  [][ (last'.op = "switchSheetResume" /\ Head(pending).alone)
      => [activeSheet |-> activeSheet', lastXML |-> lastXML']
           = switchSheetWhole(activeSheet, lastXML,
                              Head(pending).sheet, Head(pending).xml) ]_vars

\* C18: handleImport forwards every warning to onWarning once and the error,
\* if there is one, to onError once. With an error the first sheet of the
\* fallback provider becomes the active sheet if there is one (otherwise the
\* active sheet stays) and no notification is displayed; the notification,
\* with the number of warnings, is displayed exactly when there are warnings
\* and no error. The sheet list and lastXML are not touched.
C18_HandleImport ==
  [][ (last'.op = "handleImport")
      => /\ last'.host.onWarning = last'.warnings
         /\ last'.host.onError = (IF last'.error THEN 1 ELSE 0)
         /\ last'.host.dialog = last'.error
         /\ last'.host.notification =
              (IF last'.warnings > 0 /\ ~last'.error THEN <<last'.warnings>>
                                                     ELSE <<>>)
         /\ (last'.error /\ HasFallback(sheets))
              => /\ activeSheet'.provider.isFallback
                 /\ \E i \in 1..Len(sheets) :
                      /\ sheets[i] = activeSheet'
                      /\ \A j \in 1..(i - 1) : ~sheets[j].provider.isFallback
         /\ (~last'.error \/ ~HasFallback(sheets)) => activeSheet' = activeSheet
         /\ sheets' = sheets
         /\ lastXML' = lastXML ]_vars

\* an import has failed with warnings in a tab that has a fallback sheet: the
\* fallback sheet is active, the error was forwarded, no notification displayed
C18_Witness ==
  /\ last.op = "handleImport"
  /\ last.error
  /\ last.warnings > 0
  /\ last.fallback
  /\ last.host.notification = <<>>
  /\ last.host.onError = 1
  /\ activeSheet.provider = PXml
  /\ Len(sheets) >= 2

----------------------------------------------------------------------------
\* Properties of FormEditor and of the engine-profile selector

\* the onImport calls a failed import has to make: the error with its warnings
FailureCalls(error, warnings) == <<[error |-> error, warnings |-> warnings]>>

LiveImports == { i \in 1..Len(inflight) : inflight[i].live }

\* C4: isDirty() is false right after handleImport completed a successful
\* import; it turns true only in a step that moves the command stack, and
\* the events that leave the command stack alone never change it.
C4_DirtyOnlyAfterStackMove ==
  [][ /\ (last'.op = "importResolve" /\ last'.live /\ last'.error = NoError)
         => ~isDirty(commandStack', stackIdx')
      /\ (~isDirty(commandStack, stackIdx) /\ isDirty(commandStack', stackIdx'))
         => commandStack' # commandStack
      /\ (last'.op = "handleChanged")
         => /\ commandStack' = commandStack
            /\ isDirty(commandStack', stackIdx') = isDirty(commandStack, stackIdx)
            /\ last'.dirty = isDirty(commandStack, stackIdx) ]_vars

\* a successful import has just been handled, replacing a baseline that an
\* earlier getXML had moved: the editor is clean and holds the document
C4_Witness ==
  /\ last.op = "importResolve"
  /\ last.live
  /\ last.error = NoError
  /\ lastSchema = propsXml
  /\ ~isDirty(commandStack, stackIdx)
  /\ mounted

\* C5: Apply with no staged selection does not call the supplied
\* setEngineProfile, leaves the cached engineProfile (and the command stack)
\* unchanged, keeps the overlay open and sets the error flag.
C5_ApplyWithoutSelection ==
  [][ (last'.op = "apply" /\ overlay.selected = NullProfile)
      => /\ last'.setEngineProfile = <<>>
         /\ ~last'.closed
         /\ engineProfile' = engineProfile
         /\ commandStack' = commandStack
         /\ overlay'.open
         /\ overlay'.error
         /\ overlay'.selected = NullProfile ]_vars

\* Apply was clicked with nothing selected while a profile is cached
C5_Witness ==
  /\ last.op = "apply"
  /\ last.branch = "error"
  /\ overlay.open
  /\ overlay.error
  /\ overlay.selected = NullProfile
  /\ engineProfile # NullProfile

\* C9 as claimed: a mount or update starts an import exactly when props.xml
\* differs from lastSchema and no import is in flight, and at most one import
\* is in flight.
C9_ImportIffDiffers ==
  /\ last.op \in {"mount", "update"}
       => (last.started <=> (last.idle /\ last.differs))
  /\ Len(inflight) <= 1

\* C9 amended: a mount or update starts an import exactly when props.xml
\* differs from the previous props.xml (always, on mount) and from lastSchema
\* and the instance is not importing; the mounted instance has at most one
\* import in flight, and has one exactly while importing is true.
C9_ImportIffChangedAndDiffers ==
  /\ last.op \in {"mount", "update"}
       => (last.started <=> (last.idle /\ last.changed /\ last.differs))
  /\ Cardinality(LiveImports) <= 1
  /\ mounted => (importing <=> LiveImports # {})
  /\ ~mounted => LiveImports = {}

\* an update with changed props has started an import that is in flight
C9_Witness ==
  /\ last.op = "update"
  /\ last.started
  /\ last.changed
  /\ importing
  /\ Cardinality(LiveImports) = 1
  /\ lastSchema # NullDoc

\* C10: when an import fails while the component is mounted, lastSchema and
\* engineProfile are null, importing is false and onImport has been called
\* once, with the error and the warnings of the import.
C10_FailureClearsAndReports ==
  /\ (last.op = "importResolve" /\ last.live /\ last.error # NoError)
       => /\ lastSchema = NullDoc
          /\ engineProfile = NullProfile
          /\ ~importing
          /\ last.calls = FailureCalls(last.error, last.warnings)
  /\ (last.op \in {"mount", "update"} /\ last.started /\ ~importing)
       => /\ lastSchema = NullDoc
          /\ engineProfile = NullProfile
          /\ last.calls = FailureCalls("SyntaxError", <<>>)

C12_SuccessCaches ==
  (last.op = "importResolve" /\ last.live /\ last.error = NoError)
    => /\ lastSchema = last.doc
       /\ stackIdx = commandStack
       /\ engineProfile = SchemaProfile(last.doc.src)

\* C15: when props.xml has changed while the import was in flight, the step
\* that handles the import's success caches as lastSchema the document that
\* was parsed and is now held by the form engine.
C15_CachedIsImported ==
  [][ (last'.op = "importResolve" /\ last'.live /\ last'.error = NoError
        /\ Head(inflight).doc # propsXml)
      => /\ lastSchema' = Head(inflight).doc
         /\ lastSchema'.src = formSchema' ]_vars

\* C16: when props.xml has changed while an import was in flight, the step in
\* which that import finishes starts an import of the newer document.
C16_NewerDocumentImported ==
  [][ (last'.op = "importResolve" /\ last'.live /\ mounted
        /\ Head(inflight).doc # propsXml)
      => /\ last'.started
         /\ importing'
         /\ \E i \in 1..Len(inflight') :
              inflight'[i].live /\ inflight'[i].doc = propsXml ]_vars

\* C13: clicking an option only stages the selection: it leaves the cached
\* engineProfile and the command stack as they are. The supplied
\* setEngineProfile is called only by Apply, once, with the staged selection
\* (which is then not empty), and the cached engineProfile is that selection
\* afterwards; nothing but Apply and the handling of an import changes the
\* cached profile.
C13_SelectionIsStaged ==
  [][ /\ (last'.op = "select")
           => /\ engineProfile' = engineProfile
              /\ commandStack' = commandStack
              /\ overlay'.open
      /\ (last'.op = "apply" /\ last'.setEngineProfile # <<>>)
           => /\ last'.setEngineProfile = <<overlay.selected>>
              /\ overlay.selected \in ProfileOptions
              /\ engineProfile' = overlay.selected
      /\ (engineProfile' # engineProfile)
           => \/ last'.op = "apply"
              \/ last'.op \in {"importResolve", "mount", "update"}
                   /\ last'.calls # <<>> ]_vars

\* options were clicked and Apply has stored a profile that differs from the
\* one of the imported schema
C13_Witness ==
  /\ last.op = "apply"
  /\ last.branch = "set"
  /\ last.setEngineProfile = <<engineProfile>>
  /\ engineProfile \in ProfileOptions
  /\ engineProfile # SchemaProfile(formSchema)
  /\ formSchema = "f2"
  /\ ~overlay.open

\* C14: an import that resolves after its instance was unmounted is not
\* applied: the step leaves the cached lastSchema, stackIdx and engineProfile
\* (and importing) as they are and makes no onImport call; and nothing changes
\* these cached values while no instance is mounted.
C14_StaleImportIgnored ==
  [][ /\ (last'.op = "importResolve" /\ ~Head(inflight).live)
           => /\ lastSchema' = lastSchema
              /\ stackIdx' = stackIdx
              /\ engineProfile' = engineProfile
              /\ importing' = importing
              /\ last'.calls = <<>>
              /\ ~last'.started
      /\ (~mounted /\ ~mounted')
           => /\ lastSchema' = lastSchema
              /\ stackIdx' = stackIdx
              /\ engineProfile' = engineProfile ]_vars

\* the import of an unmounted instance has resolved with an error while the
\* cache still holds the document and profile of an earlier import
C14_Witness ==
  /\ last.op = "importResolve"
  /\ ~last.live
  /\ last.error # NoError
  /\ ~mounted
  /\ lastSchema # NullDoc
  /\ engineProfile # NullProfile

\* C17: getXML of a clean editor returns the cached lastSchema (props.xml when
\* there is none) without serializing and leaves the cache alone; getXML of a
\* dirty editor returns the serialized schema of the form, caches it as
\* lastSchema and moves the baseline to the stack position. Either way the
\* editor is clean afterwards and a second getXML returns the same document
\* without serializing.
C17_GetXML ==
  [][ (last'.op = "getXML")
      => /\ ~isDirty(commandStack, stackIdx)
              => /\ ~last'.serialized
                 /\ last'.result = (IF lastSchema # NullDoc THEN lastSchema
                                                            ELSE propsXml)
                 /\ lastSchema' = lastSchema
                 /\ stackIdx' = stackIdx
         /\ isDirty(commandStack, stackIdx)
              => /\ last'.serialized
                 /\ last'.result = JsonStringify(saveSchema(formSchema, commandStack))
                 /\ lastSchema' = last'.result
                 /\ stackIdx' = commandStack
         /\ commandStack' = commandStack
         /\ ~isDirty(commandStack', stackIdx')
         /\ LET again == getXML(lastSchema', stackIdx', propsXml', commandStack',
                                formSchema')
            IN /\ again.result = last'.result
               /\ ~again.serialized
               /\ again.lastSchema = lastSchema'
               /\ again.stackIdx = stackIdx' ]_vars

\* getXML has serialized an edited form that was imported before
C17_Witness ==
  /\ last.op = "getXML"
  /\ last.serialized
  /\ lastSchema = last.result
  /\ lastSchema.fmt = "pretty"
  /\ lastSchema.rev > 0
  /\ stackIdx = commandStack
  /\ formSchema \in {"f1", "f2"}

====
